---- MODULE Spec2Model ----
(***************************************************************************)
(* Model of the asynchronous scraping service: task submission, the        *)
(* browser gate (an asyncio.Semaphore), the stage pipeline of              *)
(* process_scraping_task, the terminal write to the task table, the        *)
(* webhook delivery and the status query.                                  *)
(*                                                                         *)
(* One step of the model is one run of a coroutine between two suspension  *)
(* points (awaits) of the single-threaded event loop, or one whole HTTP    *)
(* handler that never suspends.                                            *)
(***************************************************************************)
EXTENDS Integers, Sequences, FiniteSets, TLC

\* ------------------------------------------------------------------ bounds

\* Number of task ids: the most submissions the clients make in a run.
NumTasks == 3

\* The submissions the clients make in a run whose search engine answers.
NumSearching == 2

\* settings.MAX_CONCURRENT_BROWSERS: the gate's capacity. The program's
\* default is 4 and the value is read from the environment; the model runs
\* the gate with a smaller capacity so that submissions exceed it.
MAX_CONCURRENT_BROWSERS == 1

\* Largest number of candidate links one harvest returns (homepage included).
MaxLinks == 4

\* Longest visible text of a page, in characters.
MaxPageLen == 20000

\* Most digits in a phone or fax value given to the field validator.
MaxDigitsIn == 20

Tasks == 1..NumTasks

\* --------------------------------------------------------- program constants

\* stop_after_attempt(3) on verify_official_site, extract_contact_info,
\* harvest_contact_links and extract_page_text.
MaxAttempts == 3
\* stop_after_attempt(2) on extract_fallback_email.
MaxFallbackAttempts == 2
\* links_to_visit[:3]
MaxPagesVisited == 3
\* extract_page_text: text[:15000]
MaxPageChars == 15000
\* if len(combined_text) > 15000: combined_text = combined_text[:15000]
MaxBufferChars == 15000
\* validate_phone: digit count bounds.
MinPhoneDigits == 6
MaxPhoneDigits == 18

None == "None"
NOT_AVAILABLE == "Information not available"
MSG_UNKNOWN == "Unknown error"
MSG_NO_RESULTS == "No search results found"
MSG_NO_SITE == "Official site not found by LLM"
MSG_NO_CONTACT == "Failed to extract contact info via LLM"
MSG_SUCCESS == "Successfully extracted contact info"
\* str(e) of tenacity's RetryError, raised once the attempts are used up.
MSG_RETRY_ERROR == "RetryError[<Future state=finished raised Error>]"
\* str(e) of the transient error an attempt raises (RateLimitError,
\* APIStatusError, PlaywrightError, asyncio.TimeoutError).
MSG_TRANSIENT_ERROR == "Error code: 429"
\* str(e) of the error browser.close() raises when the driver has gone.
MSG_CLOSE_ERROR == "Browser.close: Connection closed while reading from the driver"

\* str(e) of the error playwright.stop() raises when the driver has gone.
MSG_STOP_ERROR == "Connection closed while reading from the driver"

\* str(e) of the error raised while the browser session is opened.
MSG_SESSION_ERROR == "BrowserType.launch: failed"

\* str(e) of the httpx.InvalidURL the post raises for a URL httpx refuses.
MSG_INVALID_URL == "Invalid non-printable ASCII character in URL"

\* ------------------------------------------------------------- text helpers
\* A Python str is a sequence of one-character strings.

Digits == {"0", "1", "2", "3", "4", "5", "6", "7", "8", "9"}
LowerAlphabet ==
    <<"a", "b", "c", "d", "e", "f", "g", "h", "i", "j", "k", "l",
      "m", "n", "o", "p", "q", "r", "s", "t", "u", "v", "w", "x",
      "y", "z">>
UpperAlphabet ==
    <<"A", "B", "C", "D", "E", "F", "G", "H", "I", "J", "K", "L",
      "M", "N", "O", "P", "Q", "R", "S", "T", "U", "V", "W", "X",
      "Y", "Z">>
LowerLetters == {LowerAlphabet[i] : i \in 1..26}
UpperLetters == {UpperAlphabet[i] : i \in 1..26}
\* The characters str.isspace() holds for, and so the ones str.strip()
\* removes from both ends. Those with no escape of their own are written as
\* the one-character strings themselves.
\* ASCII: vertical tab (0x0b) and the four separators 0x1c to 0x1f.
VT == ""
FS == ""
GS == ""
RS == ""
US == ""
\* Latin-1: next line (U+0085) and no-break space (U+00A0).
NEL == ""
NBSP == " "
\* Ogham space mark (U+1680), en quad to hair space (U+2000 to U+200A), line
\* and paragraph separator (U+2028, U+2029), narrow no-break space (U+202F),
\* medium mathematical space (U+205F) and ideographic space (U+3000). A
\* character beyond U+00FF is written by its code point: "U+3000" is the one
\* character U+3000, not six.
IDEOGRAPHIC_SPACE == "U+3000"
WideSpaces ==
    {"U+1680", "U+2000", "U+2001", "U+2002", "U+2003", "U+2004", "U+2005",
     "U+2006", "U+2007", "U+2008", "U+2009", "U+200A", "U+2028", "U+2029",
     "U+202F", "U+205F", IDEOGRAPHIC_SPACE}

\* Every character c with c.isspace().
Whitespace ==
    {" ", "\t", "\n", "\r", "\f", VT, FS, GS, RS, US, NEL, NBSP} \cup WideSpaces

\* The capitals of Latin-1 (U+00C0 to U+00DE, the sign U+00D7 apart) and
\* their lower case (U+00E0 to U+00FE).
UpperLatin1 ==
    <<"À", "Á", "Â", "Ã", "Ä", "Å", "Æ", "Ç", "È", "É", "Ê", "Ë",
      "Ì", "Í", "Î", "Ï", "Ð", "Ñ", "Ò", "Ó", "Ô", "Õ", "Ö", "Ø",
      "Ù", "Ú", "Û", "Ü", "Ý", "Þ">>
LowerLatin1 ==
    <<"à", "á", "â", "ã", "ä", "å", "æ", "ç", "è", "é", "ê", "ë",
      "ì", "í", "î", "ï", "ð", "ñ", "ò", "ó", "ô", "õ", "ö", "ø",
      "ù", "ú", "û", "ü", "ý", "þ">>
UpperLatin1Letters == {UpperLatin1[i] : i \in 1..Len(UpperLatin1)}

\* Two of them by name, and a capital whose lower case is two characters:
\* U+0130 becomes "i" and the combining dot U+0307.
E_ACUTE_UPPER == "É"
E_ACUTE_LOWER == "é"
I_DOTTED_UPPER == "U+0130"
COMBINING_DOT == "U+0307"

\* c.lower() for one character c of the model's strings, which are written
\* in Latin-1 and the characters named above: the capitals of ASCII and of
\* Latin-1 and U+0130 change, every other character (lower-case letters,
\* digits, punctuation, whitespace) is its own lower case.
LowerOf(c) ==
    IF c \in UpperLetters
    THEN <<LowerAlphabet[CHOOSE i \in 1..26 : UpperAlphabet[i] = c]>>
    ELSE IF c \in UpperLatin1Letters
    THEN <<LowerLatin1[CHOOSE i \in 1..Len(UpperLatin1) : UpperLatin1[i] = c]>>
    ELSE IF c = I_DOTTED_UPPER THEN <<"i", COMBINING_DOT>>
    ELSE <<c>>

\* str.lower(): the lower case of each character, in order.
RECURSIVE Lower(_)
Lower(s) == IF s = <<>> THEN <<>> ELSE LowerOf(Head(s)) \o Lower(Tail(s))

\* str.strip()
Strip(s) ==
    LET keep == {i \in 1..Len(s) : s[i] \notin Whitespace}
    IN  IF keep = {} THEN <<>>
        ELSE LET lo == CHOOSE i \in keep : \A j \in keep : i <= j
                 hi == CHOOSE i \in keep : \A j \in keep : j <= i
             IN  SubSeq(s, lo, hi)

\* re.sub(r"[^0-9]", "", v)
DigitsOnly(s) == SelectSeq(s, LAMBDA c : c \in Digits)

\* ContactInfo.validate_phone (field validator of Phone and Fax).
validate_phone(v) ==
    IF v = <<>> THEN <<>>
    ELSE LET w == Strip(v)
             n == Len(DigitsOnly(w))
         IN  IF n < MinPhoneDigits \/ n > MaxPhoneDigits THEN <<>> ELSE w

\* Character classes of the email pattern
\*   [a-zA-Z0-9_.+-]+ @ [a-zA-Z0-9-]+ \. [a-zA-Z0-9-.]+
Alnum == LowerLetters \cup UpperLetters \cup Digits
LocalChars == Alnum \cup {"_", ".", "+", "-"}
DomainChars == Alnum \cup {"-"}
TldChars == Alnum \cup {"-", "."}

\* End of the longest run of characters of class C that starts at i
\* (i - 1 when s[i] is not in C): what a greedy C+ consumes.
RunEnd(s, i, C) ==
    CHOOSE j \in (i - 1)..Len(s) :
        /\ \A k \in i..j : s[k] \in C
        /\ (j = Len(s) \/ s[j + 1] \notin C)

\* Whether the pattern matches starting exactly at position i.
MatchesAt(s, i) ==
    LET j == RunEnd(s, i, LocalChars)
    IN  /\ j >= i
        /\ j + 1 <= Len(s)
        /\ s[j + 1] = "@"
        /\ LET k == RunEnd(s, j + 2, DomainChars)
           IN  /\ k >= j + 2
               /\ k + 1 <= Len(s)
               /\ s[k + 1] = "."
               /\ RunEnd(s, k + 2, TldChars) >= k + 2

\* End of the match that starts at i (MatchesAt(s, i) holds).
MatchEnd(s, i) ==
    LET j == RunEnd(s, i, LocalChars)
        k == RunEnd(s, j + 2, DomainChars)
    IN  RunEnd(s, k + 2, TldChars)

\* validate_email that keeps the last address of the string.
validate_email_last(v) ==
    IF v = <<>> THEN <<>>
    ELSE LET w == Strip(v)
             starts == {i \in 1..Len(w) : MatchesAt(w, i)}
         IN  IF starts = {} THEN <<>>
             ELSE LET i == CHOOSE a \in starts :
                               /\ \A b \in starts : MatchEnd(w, b) <= MatchEnd(w, a)
                               /\ \A b \in starts : MatchEnd(w, b) = MatchEnd(w, a) => a <= b
                  IN  Lower(SubSeq(w, i, MatchEnd(w, i)))

\* ContactInfo.validate_email (field validator of Email): re.search returns
\* the leftmost match.
validate_email(v) ==
    IF v = <<>> THEN <<>>
    ELSE LET w == Strip(v)
             starts == {i \in 1..Len(w) : MatchesAt(w, i)}
         IN  IF starts = {} THEN <<>>
             ELSE LET i == CHOOSE a \in starts : \A b \in starts : a <= b
                  IN  Lower(SubSeq(w, i, MatchEnd(w, i)))


\* ------------------------------------------------------------ collaborators
\* What the external collaborators can answer. Each stage action draws one.

\* The verified homepage URL the LLM may name.
SITE_URL == "https://x.com/"

\* LLM reply to verify_official_site: a URL, the NOT_FOUND sentinel, an empty
\* reply, a RateLimitError/APIStatusError, or any other exception.
VerifyReplies == {"url", "not_found", "empty", "transient", "error"}

\* Raw field values of the JSON object the LLM returns to extract_contact_info.
PHONE_OK == <<"5", "5", "5", "-", "0", "1", "0", "0">>
\* The same number as the reply may write it, whitespace around it.
PHONE_PADDED == <<NBSP>> \o PHONE_OK \o <<NEL, " ">>
PHONE_SHORT == <<"1", "2", "3">>
EMAIL_TWO == <<"A", "b", "@", "X", ".", "c", "o", ",", " ", "b", "@", "c", ".", "o">>
EMAIL_FALLBACK == <<" ", "C", "@", "b", ".", "c", "o", " ",
                    "a", "@", "b", ".", "c", "o", " ">>
\* A non-empty Email value in which the pattern finds no address.
EMAIL_INVALID == <<"a", "@", "b">>
ADDRESS == <<"1", " ", "a", "b">>
\* The DeptContacts dictionary of the reply.
DEPT_CONTACTS == [Sales |-> <<"5", "5", "5", "-", "0", "1", "9", "9">>]

ExtractReplies ==
    { [kind |-> "transient"], [kind |-> "malformed"],
      [kind |-> "json", Phone |-> PHONE_PADDED, Email |-> <<>>, Address |-> ADDRESS,
       DeptContacts |-> DEPT_CONTACTS],
      [kind |-> "json", Phone |-> PHONE_OK, Email |-> EMAIL_INVALID, Address |-> ADDRESS,
       DeptContacts |-> DEPT_CONTACTS],
      [kind |-> "json", Phone |-> PHONE_SHORT, Email |-> EMAIL_TWO, Address |-> ADDRESS,
       DeptContacts |-> DEPT_CONTACTS] }

\* LLM reply to extract_fallback_email.
FallbackReplies ==
    { [kind |-> "transient"], [kind |-> "malformed"],
      [kind |-> "json", Email |-> <<>>],
      [kind |-> "json", Email |-> EMAIL_INVALID],
      [kind |-> "json", Email |-> EMAIL_FALLBACK] }

\* A ContactInfo whose fields take the given values as they are.
ContactInfo_unvalidated(phone, email, address, dept) ==
    [Phone |-> phone, Fax |-> <<>>, Email |-> email, Address |-> address,
     City |-> <<>>, State |-> <<>>, ZipCode |-> <<>>, DeptContacts |-> dept]

\* ContactInfo(Phone=..., Email=..., Address=..., DeptContacts=...): the field
\* validators run on construction; Fax, City, State and ZipCode take their
\* default "".
ContactInfo(phone, email, address, dept) ==
    [Phone |-> validate_phone(phone), Fax |-> validate_phone(<<>>),
     Email |-> validate_email(email), Address |-> address,
     City |-> <<>>, State |-> <<>>, ZipCode |-> <<>>, DeptContacts |-> dept]

\* ----------------------------------------------------------------- state

VARIABLES
    sem_value,     \* BROWSER_SEMAPHORE._value
    sem_waiters,   \* BROWSER_SEMAPHORE._waiters: pipelines' futures, arrival order
    ready,         \* waiters whose future is done, in the event loop's ready order
    wakeup_scheduled, \* BROWSER_SEMAPHORE._wakeup_scheduled, where the class has it
    pc,            \* where each task's pipeline stands
    loc,           \* the local variables of each running process_scraping_task
    session,       \* what each pipeline's ScraperService holds
    log,           \* stages a running pipeline has invoked, in order
    records,       \* the TaskRecord table, by task id
    writes,        \* committed updates of each task's row after its creation
    webhooks,      \* webhook posts attempted for each task
    delivery,      \* the level submit_result logged each task's post at
    field_value,   \* a value given to a ContactInfo field outside any pipeline
    harvested,     \* a set of links found on a homepage, outside any pipeline
    env            \* what the run does not change: its clients, the search
                   \* engine and the interpreter's asyncio.Semaphore

vars == <<sem_value, sem_waiters, ready, wakeup_scheduled, pc, loc, session, log, records,
          writes, webhooks, delivery, field_value, harvested, env>>

NoRecord == [status |-> "absent"]
\* Python's None where the other values are objects (poe_info, result_data).
NoneObj == [none |-> TRUE]
\* A local variable that holds an object once assigned, before it is assigned.
Unset == [unset |-> TRUE]

\* Locals of process_scraping_task before line 24 runs / after it returned.
\* links is links_to_visit, visited the links the loop of line 54 has passed
\* to extract_page_text so far, attempt the attempt a retried call is at: the
\* model clears each once the code no longer reads it.
\* combined_len is len(combined_text), official_site is final_result.official_site, poe_info is
\* final_result.poe_info, verified is the local official_site of line 41 and
\* exc is the exception in flight inside "async with scraper".
NoLocals ==
    [status |-> None, message |-> None, official_site |-> None,
     poe_info |-> NoneObj, search_results |-> "unset", verified |-> "unset",
     contact_info |-> Unset, exc |-> None,
     links |-> <<>>, visited |-> <<>>, attempt |-> 0, combined_len |-> 0]

\* Lines 24-30: final_result, status and message as first assigned.
FreshLocals ==
    [NoLocals EXCEPT !.status = "FAILURE", !.message = MSG_UNKNOWN,
                     !.official_site = NOT_AVAILABLE]

\* No field value is being validated outside the pipelines.
NoField == [name |-> "none", raw |-> <<>>, validated |-> FALSE, stored |-> <<>>]

\* No link set is being ranked outside the pipelines.
NoHarvest == [homepage_url |-> <<>>, links |-> <<>>, sorted |-> FALSE, sorted_links |-> <<>>]

Range(s) == {s[i] : i \in 1..Len(s)}
Remove(s, x) == SelectSeq(s, LAMBDA y : y # x)

\* The service after start-up: the gate free, no task submitted.
Idle ==
    /\ sem_value = MAX_CONCURRENT_BROWSERS
    /\ sem_waiters = <<>>
    /\ ready = <<>>
    /\ wakeup_scheduled = FALSE
    /\ pc = [t \in Tasks |-> "idle"]
    /\ loc = [t \in Tasks |-> NoLocals]
    /\ session = [t \in Tasks |-> "none"]
    /\ log = [t \in Tasks |-> <<>>]
    /\ records = [t \in Tasks |-> NoRecord]
    /\ writes = [t \in Tasks |-> 0]
    /\ webhooks = [t \in Tasks |-> 0]
    /\ delivery = [t \in Tasks |-> "none"]

\* The asyncio.Semaphore of the interpreter, which nothing in the repository
\* fixes. "requeue": CPython 3.8, where acquire() tests the counter in a
\* loop, release() raises the counter and takes the first waiter off the
\* queue, and the woken waiter tests the counter again. "scheduled": CPython
\* 3.9.18, the same with the flag _wakeup_scheduled, which release() sets
\* when it wakes a waiter and the waiter clears when it runs, and which makes
\* acquire() wait while it is set. "fifo": CPython 3.11 to 3.13, where
\* locked() also looks at the queue and release() hands the slot to the
\* first waiter.
Semaphores == {"requeue", "scheduled", "fifo"}

\* The runs explored: NumTasks submissions while the search engine answers
\* no query (every error of perform_duckduckgo_search is swallowed into []),
\* or NumSearching submissions while it answers; each on every semaphore.
Environments ==
    [clients : {NumTasks}, search : {"down"}, semaphore : Semaphores]
        \cup [clients : {NumSearching}, search : {"up"}, semaphore : Semaphores]

\* The environment of the runs that validate one field or rank one link set.
NoClients == [clients |-> 0, search |-> "up", semaphore |-> "fifo"]

Init ==
    /\ Idle
    /\ field_value = NoField
    /\ harvested = NoHarvest
    /\ env \in Environments

\* ------------------------------------------------------------- the gate
\* asyncio.Semaphore as BROWSER_SEMAPHORE uses it (no waiter is cancelled).
\* sem_waiters holds the pipelines whose future is in _waiters, ready those
\* whose future has been set and that have not run since.

\* locked() that looks at the queue only: a pipeline arriving at a full gate
\* with nobody queued is let in.
locked_ignores_value(value, waiters) == waiters # <<>>

\* Semaphore.locked() of CPython 3.11 to 3.13: no free slot, or somebody is
\* already queued.
locked(value, waiters) == value = 0 \/ waiters # <<>>

\* The test of acquire() in CPython 3.8 (while self._value <= 0): the queue
\* is not looked at.
locked_requeue(value, waiters) == value <= 0

\* The test of acquire() in CPython 3.9.18
\* (while self._wakeup_scheduled or self._value <= 0): a pipeline also waits
\* while a woken waiter has not run yet, whatever the counter.
locked_scheduled(value, scheduled) == scheduled \/ value <= 0

\* Whether acquire() has to wait, on the semaphore of the run.
MustWait(semaphore, value, waiters, scheduled) ==
    CASE semaphore = "fifo" -> locked(value, waiters)
      [] semaphore = "scheduled" -> locked_scheduled(value, scheduled)
      [] semaphore = "requeue" -> locked_requeue(value, waiters)

\* The first waiter whose future is not done (0 when there is none).
NextToWake(waiters, done) ==
    LET open == {i \in 1..Len(waiters) : waiters[i] \notin done}
    IN  IF open = {} THEN 0
        ELSE waiters[CHOOSE i \in open : \A j \in open : i <= j]

\* Semaphore._wake_up_next() of CPython 3.11 to 3.13: the first waiter whose
\* future is not done is handed a slot (the counter goes down for it) and
\* its future is set; it stays in _waiters until it runs.
wake_up_next(value, waiters, rdy) ==
    LET w == NextToWake(waiters, Range(rdy))
    IN  IF w = 0 THEN [value |-> value, waiters |-> waiters, ready |-> rdy]
        ELSE [value |-> value - 1, waiters |-> waiters, ready |-> Append(rdy, w)]

\* The loop at the end of acquire() in later releases:
\*   while self._value > 0: if not self._wake_up_next(): break
RECURSIVE wake_up_many(_, _, _)
wake_up_many(value, waiters, rdy) ==
    IF value > 0 /\ NextToWake(waiters, Range(rdy)) # 0
    THEN LET s == wake_up_next(value, waiters, rdy)
         IN  wake_up_many(s.value, waiters, s.ready)
    ELSE [value |-> value, waiters |-> waiters, ready |-> rdy]

\* How acquire() of the "fifo" semaphore ends when a slot is free: with one
\* _wake_up_next() (CPython 3.11), or with the loop above, which wakes a
\* waiter for every free slot (later releases).
WakePolicies == {"one", "many"}

\* Semaphore._wake_up_next() of CPython 3.8: the first waiter is taken off
\* _waiters (popleft) and its future is set; the counter is left as it is.
wake_up_next_requeue(value, waiters, rdy) ==
    IF waiters = <<>> THEN [value |-> value, waiters |-> waiters, ready |-> rdy]
    ELSE [value |-> value, waiters |-> Tail(waiters), ready |-> Append(rdy, Head(waiters))]

\* Whether Semaphore._wake_up_next() of CPython 3.9.18, which wakes as the
\* one of 3.8 does, leaves _wakeup_scheduled set: it sets the flag when it
\* wakes a waiter and leaves it as it is when nobody waits.
wakeup_scheduled_after(waiters, scheduled) == waiters # <<>> \/ scheduled

\* Semaphore.release(), run by __aexit__ of "async with BROWSER_SEMAPHORE":
\* self._value += 1, then self._wake_up_next(). The answer is the state of
\* the semaphore after it.
release(semaphore, value, waiters, rdy, scheduled) ==
    LET s == IF semaphore = "fifo" THEN wake_up_next(value + 1, waiters, rdy)
             ELSE wake_up_next_requeue(value + 1, waiters, rdy)
    IN  [value |-> s.value, waiters |-> s.waiters, ready |-> s.ready,
         scheduled |-> IF semaphore = "scheduled"
                       THEN wakeup_scheduled_after(waiters, scheduled)
                       ELSE scheduled]

\* Leaving the "async with BROWSER_SEMAPHORE" block, by return or by raise.
ExitGate ==
    LET s == release(env.semaphore, sem_value, sem_waiters, ready, wakeup_scheduled)
    IN  /\ sem_value' = s.value
        /\ sem_waiters' = s.waiters
        /\ ready' = s.ready
        /\ wakeup_scheduled' = s.scheduled


\* -------------------------------------------------------- the HTTP handlers

\* TaskRecord(task_id=..., status=...): message and result_data default to None.
TaskRecord(status) == [status |-> status, message |-> None, result_data |-> NoneObj]

\* The status create_search_task gives the new record (line 110).
SubmitStatus == "IN_PROGRESS"

\* create_search_task that takes a gate slot before it answers.
Submit_blocking(t) ==
    /\ pc[t] = "idle"
    /\ \A u \in Tasks : u < t => pc[u] # "idle"
    /\ t <= env.clients
    /\ ~MustWait(env.semaphore, sem_value, sem_waiters, wakeup_scheduled)
    /\ records' = [records EXCEPT ![t] = [status |-> "IN_PROGRESS", message |-> None,
                                          result_data |-> NoneObj]]
    /\ pc' = [pc EXCEPT ![t] = "scheduled"]
    /\ UNCHANGED <<sem_value, sem_waiters, ready, wakeup_scheduled, loc, session, log, writes, webhooks, delivery, field_value, harvested, env>>

\* create_search_task: insert the record, schedule the pipeline as a
\* background task, answer. It never awaits. Task ids are fresh uuid4 values:
\* the model names the i-th submitted task i, and the clients of the run
\* make env.clients submissions.
Submit(t) ==
    /\ pc[t] = "idle"
    /\ \A u \in Tasks : u < t => pc[u] # "idle"
    /\ t <= env.clients
    /\ records' = [records EXCEPT ![t] = TaskRecord(SubmitStatus)]
    /\ pc' = [pc EXCEPT ![t] = "scheduled"]
    /\ UNCHANGED <<sem_value, sem_waiters, ready, wakeup_scheduled, loc, session, log, writes, webhooks, delivery, field_value, harvested, env>>

\* get_task_status: what the endpoint answers for task id t. The answer has
\* the keys task_id, status, result, created_at and updated_at.
get_task_status(t) ==
    IF records[t] = NoRecord THEN [code |-> 404]
    ELSE [code |-> 200, task_id |-> t, status |-> records[t].status,
          result |-> records[t].result_data]

\* A status query: the handler reads the table and answers; it assigns
\* nothing and commits nothing.
Query(t) ==
    /\ get_task_status(t).code \in {200, 404}
    /\ UNCHANGED vars

\* ------------------------------------------------------------ the pipeline

Stage(t, name) == log' = [log EXCEPT ![t] = Append(@, name)]

\* process_scraping_task starts: "async with BROWSER_SEMAPHORE" acquires a
\* slot at once when acquire() need not wait, and queues a future otherwise.
\* With a slot, lines 21-30 run up to the first await (scraper.__aenter__).
Start(t) ==
    /\ pc[t] = "scheduled"
    /\ IF ~MustWait(env.semaphore, sem_value, sem_waiters, wakeup_scheduled)
       THEN /\ sem_value' = sem_value - 1
            /\ pc' = [pc EXCEPT ![t] = "aenter"]
            /\ loc' = [loc EXCEPT ![t] = FreshLocals]
            /\ UNCHANGED sem_waiters
       ELSE /\ sem_waiters' = Append(sem_waiters, t)
            /\ pc' = [pc EXCEPT ![t] = "waiting"]
            /\ UNCHANGED <<sem_value, loc>>
    /\ UNCHANGED <<ready, wakeup_scheduled, session, log, records, writes, webhooks, delivery, field_value, harvested, env>>

\* A woken waiter runs again inside acquire(), in the order the futures were
\* set. On the "fifo" semaphore it holds its slot already: it leaves the
\* queue, wakes the next waiter if a slot is still free (or every waiter a
\* slot is free for), and enters the block. On the "requeue" and the
\* "scheduled" semaphore it tests the counter again (on the latter it has
\* first cleared _wakeup_scheduled): with a slot free it takes it and enters
\* the block; with none (a pipeline that arrived in between took it) it
\* appends a new future to the queue, behind every other waiter.
Resume(t) ==
    /\ pc[t] = "waiting"
    /\ ready # <<>>
    /\ Head(ready) = t
    /\ IF env.semaphore = "fifo"
       THEN /\ \E policy \in WakePolicies :
                 LET waiters == Remove(sem_waiters, t)
                     s == IF sem_value > 0
                          THEN IF policy = "one"
                               THEN wake_up_next(sem_value, waiters, Tail(ready))
                               ELSE wake_up_many(sem_value, waiters, Tail(ready))
                          ELSE [value |-> sem_value, ready |-> Tail(ready)]
                 IN  /\ sem_waiters' = waiters
                     /\ sem_value' = s.value
                     /\ ready' = s.ready
            /\ pc' = [pc EXCEPT ![t] = "aenter"]
            /\ loc' = [loc EXCEPT ![t] = FreshLocals]
            /\ UNCHANGED wakeup_scheduled
       ELSE /\ wakeup_scheduled' = IF env.semaphore = "scheduled" THEN FALSE
                                   ELSE wakeup_scheduled
            /\ IF MustWait(env.semaphore, sem_value, sem_waiters, wakeup_scheduled')
               THEN /\ sem_waiters' = Append(sem_waiters, t)
                    /\ ready' = Tail(ready)
                    /\ UNCHANGED <<sem_value, pc, loc>>
               ELSE /\ sem_value' = sem_value - 1
                    /\ ready' = Tail(ready)
                    /\ pc' = [pc EXCEPT ![t] = "aenter"]
                    /\ loc' = [loc EXCEPT ![t] = FreshLocals]
                    /\ UNCHANGED sem_waiters
    /\ UNCHANGED <<session, log, records, writes, webhooks, delivery, field_value, harvested, env>>

\* An except clause that also puts the result back to its first value.
Caught_reset(l, text) ==
    [l EXCEPT !.message = text, !.status = "FAILURE", !.exc = None,
              !.official_site = NOT_AVAILABLE]

\* The except clause of line 79: message = str(e), status = "FAILURE".
Caught(l, text) == [l EXCEPT !.message = text, !.status = "FAILURE", !.exc = None]

\* final_result.model_dump()
ResultData(l) == [official_site |-> l.official_site, poe_info |-> l.poe_info]

\* A terminal write that puts the row back to TaskRecord's default status.
TerminalUpdate_reset(rec, l) ==
    [rec EXCEPT !.status = "PENDING",
                !.result_data = [official_site |-> l.official_site, poe_info |-> l.poe_info]]

\* Lines 90-92: the fields the terminal write assigns on the task's row.
TerminalUpdate(rec, l) == [rec EXCEPT !.status = l.status, !.result_data = ResultData(l)]

\* The row the pipeline of task t loads and updates: session.get(TaskRecord, task_id).
RowOf(t) == t

\* A terminal write outside the gate's scoped release: when the database
\* raises, the slot is never given back.
Persist_leak(t, l) ==
    \/ /\ records' = [records EXCEPT ![t] = [@ EXCEPT !.status = l.status,
                         !.result_data = [official_site |-> l.official_site,
                                          poe_info |-> l.poe_info]]]
       /\ writes' = [writes EXCEPT ![t] = @ + 1]
       /\ pc' = [pc EXCEPT ![t] = "webhook"]
       /\ loc' = [loc EXCEPT ![t] = l]
       /\ UNCHANGED <<sem_value, sem_waiters, ready, wakeup_scheduled, log>>
    \/ /\ pc' = [pc EXCEPT ![t] = "raised"]
       /\ loc' = [loc EXCEPT ![t] = NoLocals]
       /\ log' = [log EXCEPT ![t] = <<>>]
       /\ UNCHANGED <<sem_value, sem_waiters, ready, wakeup_scheduled, records, writes>>

\* Lines 84-103, reached with locals l and run without suspension: the
\* terminal write, then the payload is built and the post is started. When
\* the database session or the commit raises, the error leaves
\* process_scraping_task through the gate's block and nothing is posted.
Persist(t, l) ==
    \/ /\ IF records[RowOf(t)] # NoRecord
          THEN /\ records' = [records EXCEPT ![RowOf(t)] = TerminalUpdate(@, l)]
               /\ writes' = [writes EXCEPT ![RowOf(t)] = @ + 1]
          ELSE UNCHANGED <<records, writes>>
       /\ pc' = [pc EXCEPT ![t] = "webhook"]
       /\ loc' = [loc EXCEPT ![t] = l]
       /\ UNCHANGED <<sem_value, sem_waiters, ready, wakeup_scheduled, log>>
    \/ /\ ExitGate
       /\ pc' = [pc EXCEPT ![t] = "raised"]
       /\ loc' = [loc EXCEPT ![t] = NoLocals]
       /\ log' = [log EXCEPT ![t] = <<>>]
       /\ UNCHANGED <<records, writes>>

\* ScraperService.__aenter__, one awaited call at a step: with no driver
\* yet, async_playwright().start() (line 20); with the driver running,
\* chromium.launch() (line 21), after which the first stage follows. The
\* pipeline is suspended in between and other tasks may run. An error of
\* either call is raised before the session exists, so __aexit__ does not
\* run: the except clause and the terminal write follow at once, with
\* whatever was started left as it is.
AEnter(t) ==
    /\ pc[t] = "aenter"
    /\ \E ok \in BOOLEAN :
         IF ~ok
         THEN /\ UNCHANGED session
              /\ Persist(t, Caught(loc[t], MSG_SESSION_ERROR))
         ELSE /\ IF session[t] = "none"
                 THEN /\ session' = [session EXCEPT ![t] = "driver"]
                      /\ UNCHANGED pc
                 ELSE /\ session' = [session EXCEPT ![t] = "browser"]
                      /\ pc' = [pc EXCEPT ![t] = "search"]
              /\ UNCHANGED <<loc, sem_value, sem_waiters, ready, wakeup_scheduled, log, records, writes>>
    /\ UNCHANGED <<webhooks, delivery, field_value, harvested, env>>

\* An exception raised inside "async with scraper": the session is closed
\* first (pc "aexit"), then the except clause records it.
Raise(t, text) ==
    /\ loc' = [loc EXCEPT ![t].exc = text, ![t].attempt = 0, ![t].links = <<>>,
                          ![t].visited = <<>>, ![t].combined_len = 0]
    /\ pc' = [pc EXCEPT ![t] = "aexit"]

\* Whether perform_duckduckgo_search returns any URL: it may or may not
\* while the search engine answers, and returns [] while it is down.
SearchReplies == IF env.search = "up" THEN BOOLEAN ELSE {FALSE}

\* A search stage that hands its results to link harvesting, site
\* verification left out.
Search_skipverify(t) ==
    /\ pc[t] = "search"
    /\ log' = [log EXCEPT ![t] = Append(@, "search")]
    /\ \E found \in SearchReplies :
         IF ~found
         THEN /\ loc' = [loc EXCEPT ![t].search_results = "empty",
                                    ![t].message = MSG_NO_RESULTS,
                                    ![t].exc = MSG_NO_RESULTS]
              /\ pc' = [pc EXCEPT ![t] = "aexit"]
         ELSE /\ loc' = [loc EXCEPT ![t].search_results = "urls", ![t].attempt = 1]
              /\ pc' = [pc EXCEPT ![t] = "harvest"]
    /\ UNCHANGED <<sem_value, sem_waiters, ready, wakeup_scheduled, session, records, writes, webhooks, delivery, field_value, harvested, env>>

\* 1. perform_duckduckgo_search: every error inside is swallowed into [].
Search(t) ==
    /\ pc[t] = "search"
    /\ Stage(t, "search")
    /\ \E found \in SearchReplies :
         IF ~found
         THEN /\ loc' = [loc EXCEPT ![t].search_results = "empty",
                                    ![t].message = MSG_NO_RESULTS,
                                    ![t].exc = MSG_NO_RESULTS]
              /\ pc' = [pc EXCEPT ![t] = "aexit"]
         ELSE /\ loc' = [loc EXCEPT ![t].search_results = "urls", ![t].attempt = 1]
              /\ pc' = [pc EXCEPT ![t] = "verify"]
    /\ UNCHANGED <<sem_value, sem_waiters, ready, wakeup_scheduled, session, records, writes, webhooks, delivery, field_value, harvested, env>>

\* What one attempt of verify_official_site returns for an LLM reply
\* ("" for NOT_FOUND, an empty reply and any non-transient exception).
verify_official_site(reply) == IF reply = "url" THEN SITE_URL ELSE ""

\* 2. One attempt of llm_client.verify_official_site under its retry policy.
Verify(t) ==
    /\ pc[t] = "verify"
    /\ \E reply \in VerifyReplies :
         IF reply = "transient"
         THEN IF loc[t].attempt < MaxAttempts
              THEN /\ loc' = [loc EXCEPT ![t].attempt = @ + 1]
                   /\ UNCHANGED pc
              ELSE Raise(t, MSG_RETRY_ERROR)
         ELSE LET official_site == verify_official_site(reply)
              IN  IF official_site = ""
                  THEN /\ loc' = [loc EXCEPT ![t].verified = official_site,
                                             ![t].message = MSG_NO_SITE,
                                             ![t].exc = MSG_NO_SITE,
                                             ![t].attempt = 0]
                       /\ pc' = [pc EXCEPT ![t] = "aexit"]
                  ELSE /\ loc' = [loc EXCEPT ![t].verified = official_site,
                                             ![t].official_site = official_site,
                                             ![t].attempt = 1]
                       /\ pc' = [pc EXCEPT ![t] = "harvest"]
    /\ log' = [log EXCEPT ![t] = IF loc[t].attempt = 1 THEN Append(@, "verify") ELSE @]
    /\ UNCHANGED <<sem_value, sem_waiters, ready, wakeup_scheduled, session, records, writes, webhooks, delivery, field_value, harvested, env>>


\* ------------------------------------------------------------ link ranking

\* Whether the word w occurs in the string s: w in s.
Contains(s, w) ==
    \E i \in 1..(Len(s) - Len(w) + 1) : SubSeq(s, i, i + Len(w) - 1) = w

\* score_link that looks for "about" before "contact".
score_link_about_first(url, homepage_url) ==
    LET url_lower == Lower(url)
    IN  IF Contains(url_lower, <<"a", "b", "o", "u", "t">>) THEN 2
        ELSE IF Contains(url_lower, <<"c", "o", "n", "t", "a", "c", "t">>) THEN 1
        ELSE IF Contains(url_lower, <<"t", "e", "a", "m">>)
                \/ Contains(url_lower, <<"s", "t", "a", "f", "f">>) THEN 3
        ELSE IF Contains(url_lower, <<"l", "o", "c", "a", "t", "i", "o", "n">>)
                \/ Contains(url_lower, <<"o", "f", "f", "i", "c", "e">>) THEN 4
        ELSE IF url_lower = Lower(homepage_url) THEN 5
        ELSE 6

\* score_link (lines 250-257): the first rule that applies gives the score.
score_link(url, homepage_url) ==
    LET url_lower == Lower(url)
    IN  IF Contains(url_lower, <<"c", "o", "n", "t", "a", "c", "t">>) THEN 1
        ELSE IF Contains(url_lower, <<"a", "b", "o", "u", "t">>) THEN 2
        ELSE IF Contains(url_lower, <<"t", "e", "a", "m">>)
                \/ Contains(url_lower, <<"s", "t", "a", "f", "f">>) THEN 3
        ELSE IF Contains(url_lower, <<"l", "o", "c", "a", "t", "i", "o", "n">>)
                \/ Contains(url_lower, <<"o", "f", "f", "i", "c", "e">>) THEN 4
        ELSE IF url_lower = Lower(homepage_url) THEN 5
        ELSE 6

\* The keys of the sort: score_link is called once for each link of the list.
RECURSIVE Scores(_, _)
Scores(links, homepage_url) ==
    IF links = <<>> THEN <<>>
    ELSE <<score_link(Head(links), homepage_url)>> \o Scores(Tail(links), homepage_url)

\* sorted(list(links), key=score_link): a stable sort, links of one score
\* keep the order the list had.
sorted_links(links, homepage_url) ==
    LET n == Len(links)
        key == Scores(links, homepage_url)
        pos(i) == 1 + Cardinality({j \in 1..n :
                          key[j] < key[i] \/ (key[j] = key[i] /\ j < i)})
    IN  [p \in 1..n |-> links[CHOOSE i \in 1..n : pos(i) = p]]

\* The homepage and the links that may be found on it.
HOME_URL == <<"h", "t", "t", "p", "s", ":", "/", "/", "x", ".", "c", "o", "m", "/">>
URL_CONTACT == HOME_URL \o <<"c", "o", "n", "t", "a", "c", "t">>
URL_ABOUT == HOME_URL \o <<"a", "b", "o", "u", "t">>
URL_TEAM == HOME_URL \o <<"t", "e", "a", "m">>
URL_STAFF == HOME_URL \o <<"S", "t", "a", "f", "f">>
URL_LOCATIONS == HOME_URL \o <<"l", "o", "c", "a", "t", "i", "o", "n", "s">>
URL_OFFICE == HOME_URL \o <<"o", "f", "f", "i", "c", "e">>
URL_ABOUT_CONTACT == HOME_URL \o <<"a", "b", "o", "u", "t", "/", "c", "o", "n", "t", "a", "c", "t">>
URL_REACH_US == HOME_URL \o <<"r", "e", "a", "c", "h", "-", "u", "s">>
\* What urljoin makes of an href that writes the homepage in capitals: the
\* scheme in lower case, the rest as written.
HOME_UPPER == <<"h", "t", "t", "p", "s", ":", "/", "/", "X", ".", "C", "O", "M", "/">>
\* Homepages whose path has a letter outside ASCII, and the links that write
\* that letter as a capital.
HOME_ACCENT == HOME_URL \o <<E_ACUTE_LOWER>>
URL_ACCENT_UPPER == HOME_URL \o <<E_ACUTE_UPPER>>
HOME_DOTTED == HOME_URL \o <<"i", COMBINING_DOT>>
URL_DOTTED_UPPER == HOME_URL \o <<I_DOTTED_UPPER>>

\* The homepages a link set is collected on.
Homepages == {HOME_URL, HOME_ACCENT, HOME_DOTTED}

\* The links the anchors of a homepage may lead to: for the plain homepage
\* every keyword link and the homepage in capitals; for a homepage with a
\* letter outside ASCII its capital variant, the plain homepage, a keyword
\* link and a link of no tier.
FoundLinks(homepage_url) ==
    IF homepage_url = HOME_URL
    THEN {URL_CONTACT, URL_ABOUT, URL_TEAM, URL_STAFF, URL_LOCATIONS, URL_OFFICE,
          URL_ABOUT_CONTACT, URL_REACH_US, HOME_UPPER}
    ELSE {IF homepage_url = HOME_ACCENT THEN URL_ACCENT_UPPER ELSE URL_DOTTED_UPPER,
          HOME_URL, URL_CONTACT, URL_REACH_US}

\* list(links) for a homepage: the set holds the homepage and up to
\* MaxLinks - 1 other links, and the list has them in any order.
LinkLists(homepage_url) ==
    UNION {{l \in [1..n -> FoundLinks(homepage_url) \cup {homepage_url}] :
                /\ \E i \in 1..n : l[i] = homepage_url
                /\ \A i, j \in 1..n : i # j => l[i] # l[j]} : n \in 1..MaxLinks}

\* The set links for the site the pipelines verify: the homepage alone (no
\* link found, or the visit failed and was swallowed), and sets of up to
\* MaxLinks links, one of them with two spellings of the homepage.
SiteLinkSets ==
    { {HOME_URL},
      {URL_TEAM, URL_CONTACT, HOME_URL},
      {HOME_UPPER, URL_REACH_US, HOME_URL},
      {URL_REACH_US, HOME_URL, URL_STAFF, URL_ABOUT_CONTACT} }

\* list(links) for a set of links: its members in any order (the iteration
\* order of a set of str changes with the hash seed of the process).
ListsOf(links) ==
    {l \in [1..Cardinality(links) -> links] :
        \A i, j \in 1..Cardinality(links) : i # j => l[i] # l[j]}

\* list(links) for the site the pipelines verify.
SiteLinkLists == UNION {ListsOf(links) : links \in SiteLinkSets}

\* The browser-visit operations raise their transient class (PlaywrightError)
\* when the context or the page cannot be opened; every later error of the
\* visit is swallowed inside the operation.

\* official_site as a sequence of characters.
UrlText(site) == IF site = SITE_URL THEN HOME_URL ELSE <<>>

\* 3. One attempt of scraper.harvest_contact_links on the verified site: the
\* links collected on the homepage, the homepage among them, are sorted by
\* score_link and returned (lines 249-260).
Harvest(t) ==
    /\ pc[t] = "harvest"
    /\ \/ IF loc[t].attempt < MaxAttempts
          THEN /\ loc' = [loc EXCEPT ![t].attempt = @ + 1]
               /\ UNCHANGED pc
          ELSE Raise(t, MSG_RETRY_ERROR)
       \/ \E links \in SiteLinkLists :
            /\ loc' = [loc EXCEPT ![t].links = sorted_links(links, UrlText(loc[t].verified)),
                                  ![t].visited = <<>>, ![t].attempt = 1,
                                  ![t].combined_len = 0]
            /\ pc' = [pc EXCEPT ![t] = "visit"]
    /\ log' = [log EXCEPT ![t] = IF loc[t].attempt = 1 THEN Append(@, "harvest") ELSE @]
    /\ UNCHANGED <<sem_value, sem_waiters, ready, wakeup_scheduled, session, records, writes, webhooks, delivery, field_value, harvested, env>>

\* A loop over the whole list: for link in links_to_visit.
PagesToVisit_all(n) == n

\* len(links_to_visit[:3]) for a list of n links.
PagesToVisit(n) == IF n < MaxPagesVisited THEN n ELSE MaxPagesVisited

\* Lengths the visible text of a page may have, before extract_page_text cuts
\* it; 0 stands for a page whose extraction failed and was swallowed.
PageTextLens == {0, MaxPageLen \div 3, MaxPageLen}

\* len(text[:15000]) for a text of n characters.
extract_page_text(n) == IF n > MaxPageChars THEN MaxPageChars ELSE n

\* len(f"\n--- Source: {link} ---\n{text}\n")
SourceBlockLen(link_len, text_len) == 13 + link_len + 5 + text_len + 1

\* Lines 58-59: the length of combined_text after the cut.
CutBuffer(n) == IF n > MaxBufferChars THEN MaxBufferChars ELSE n

\* 4. One attempt of scraper.extract_page_text on the next link of
\* links_to_visit[:3], its text appended to combined_text under a source
\* header; after the last one the loop ends, the buffer is cut and
\* extraction is called.
Visit(t) ==
    /\ pc[t] = "visit"
    /\ \/ IF loc[t].attempt < MaxAttempts
          THEN /\ loc' = [loc EXCEPT ![t].attempt = @ + 1]
               /\ UNCHANGED pc
          ELSE Raise(t, MSG_RETRY_ERROR)
       \/ \E n \in PageTextLens :
            LET link == loc[t].links[Len(loc[t].visited) + 1]
                combined == loc[t].combined_len
                                + SourceBlockLen(Len(link), extract_page_text(n))
            IN  IF Len(loc[t].visited) + 1 < PagesToVisit(Len(loc[t].links))
                THEN /\ loc' = [loc EXCEPT ![t].visited = Append(@, link),
                                           ![t].attempt = 1,
                                           ![t].combined_len = combined]
                     /\ UNCHANGED pc
                ELSE /\ loc' = [loc EXCEPT ![t].visited = Append(@, link),
                                           ![t].attempt = 1,
                                           ![t].links = <<>>,
                                           ![t].combined_len = CutBuffer(combined)]
                     /\ pc' = [pc EXCEPT ![t] = "extract"]
    /\ log' = [log EXCEPT ![t] = IF loc[t].attempt = 1 /\ loc[t].visited = <<>>
                                 THEN Append(@, "visit") ELSE @]
    /\ UNCHANGED <<sem_value, sem_waiters, ready, wakeup_scheduled, session, records, writes, webhooks, delivery, field_value, harvested, env>>

\* Lines 72-77: attach the contact info and report success, or report that
\* extraction produced nothing.
Finalize(l) ==
    IF l.contact_info # NoneObj
    THEN [l EXCEPT !.poe_info = l.contact_info, !.status = "SUCCESS",
                   !.message = MSG_SUCCESS, !.attempt = 0, !.visited = <<>>,
                   !.combined_len = 0]
    ELSE [l EXCEPT !.message = MSG_NO_CONTACT, !.attempt = 0, !.visited = <<>>,
                   !.combined_len = 0]

\* What one attempt of extract_contact_info returns for a non-transient reply.
extract_contact_info(reply) ==
    IF reply.kind = "json"
    THEN ContactInfo(reply.Phone, reply.Email, reply.Address, reply.DeptContacts)
    ELSE NoneObj

\* A test of line 65 that looks at the object only, not at its Email.
NeedsFallback_always(contact_info) == contact_info # NoneObj

\* Line 65: the fallback search is wanted.
NeedsFallback(contact_info) == contact_info # NoneObj /\ contact_info.Email = <<>>

\* 5. One attempt of llm_client.extract_contact_info under its retry policy.
Extract(t) ==
    /\ pc[t] = "extract"
    /\ \E reply \in ExtractReplies :
         IF reply.kind = "transient"
         THEN IF loc[t].attempt < MaxAttempts
              THEN /\ loc' = [loc EXCEPT ![t].attempt = @ + 1]
                   /\ UNCHANGED pc
              ELSE Raise(t, MSG_RETRY_ERROR)
         ELSE LET contact_info == extract_contact_info(reply)
                  l == [loc[t] EXCEPT !.contact_info = contact_info]
              IN  IF NeedsFallback(contact_info)
                  THEN /\ loc' = [loc EXCEPT ![t] = [l EXCEPT !.attempt = 0, !.visited = <<>>,
                                                               !.combined_len = 0]]
                       /\ pc' = [pc EXCEPT ![t] = "fbsearch"]
                  ELSE /\ loc' = [loc EXCEPT ![t] = Finalize(l)]
                       /\ pc' = [pc EXCEPT ![t] = "aexit"]
    /\ log' = [log EXCEPT ![t] = IF loc[t].attempt = 1 THEN Append(@, "extract") ELSE @]
    /\ UNCHANGED <<sem_value, sem_waiters, ready, wakeup_scheduled, session, records, writes, webhooks, delivery, field_value, harvested, env>>

\* 6a. perform_duckduckgo_snippet_search: snippet text, or "" on any error.
FallbackSearch(t) ==
    /\ pc[t] = "fbsearch"
    /\ Stage(t, "fbsearch")
    /\ \E snippets \in BOOLEAN :
         IF snippets
         THEN /\ loc' = [loc EXCEPT ![t].attempt = 1]
              /\ pc' = [pc EXCEPT ![t] = "fbllm"]
         ELSE /\ loc' = [loc EXCEPT ![t] = Finalize(@)]
              /\ pc' = [pc EXCEPT ![t] = "aexit"]
    /\ UNCHANGED <<sem_value, sem_waiters, ready, wakeup_scheduled, session, records, writes, webhooks, delivery, field_value, harvested, env>>

\* What one attempt of extract_fallback_email returns for a non-transient
\* reply: current_info, its Email reassigned (and so re-validated) when the
\* reply names a non-blank one.
extract_fallback_email(reply, current_info) ==
    IF reply.kind = "json" /\ Strip(reply.Email) # <<>>
    THEN [current_info EXCEPT !.Email = validate_email(Strip(reply.Email))]
    ELSE current_info

\* extract_fallback_email under the retry policy of the other LLM calls.
FallbackLLM_three(t) ==
    /\ pc[t] = "fbllm"
    /\ \E reply \in FallbackReplies :
         IF reply.kind = "transient"
         THEN IF loc[t].attempt < MaxAttempts
              THEN /\ loc' = [loc EXCEPT ![t].attempt = @ + 1]
                   /\ UNCHANGED pc
              ELSE Raise(t, MSG_RETRY_ERROR)
         ELSE LET l == [loc[t] EXCEPT
                          !.contact_info = extract_fallback_email(reply, @)]
              IN  /\ loc' = [loc EXCEPT ![t] = Finalize(l)]
                  /\ pc' = [pc EXCEPT ![t] = "aexit"]
    /\ log' = [log EXCEPT ![t] = IF loc[t].attempt = 1 THEN Append(@, "fbllm") ELSE @]
    /\ UNCHANGED <<sem_value, sem_waiters, ready, wakeup_scheduled, session, records, writes, webhooks, delivery, field_value, harvested, env>>

\* 6b. One attempt of llm_client.extract_fallback_email under its retry policy.
FallbackLLM(t) ==
    /\ pc[t] = "fbllm"
    /\ \E reply \in FallbackReplies :
         IF reply.kind = "transient"
         THEN IF loc[t].attempt < MaxFallbackAttempts
              THEN /\ loc' = [loc EXCEPT ![t].attempt = @ + 1]
                   /\ UNCHANGED pc
              ELSE Raise(t, MSG_RETRY_ERROR)
         ELSE LET l == [loc[t] EXCEPT
                          !.contact_info = extract_fallback_email(reply, @)]
              IN  /\ loc' = [loc EXCEPT ![t] = Finalize(l)]
                  /\ pc' = [pc EXCEPT ![t] = "aexit"]
    /\ log' = [log EXCEPT ![t] = IF loc[t].attempt = 1 THEN Append(@, "fbllm") ELSE @]
    /\ UNCHANGED <<sem_value, sem_waiters, ready, wakeup_scheduled, session, records, writes, webhooks, delivery, field_value, harvested, env>>

\* ScraperService.__aexit__, one awaited call at a step: with the browser
\* open, browser.close() (line 26); with only the driver left,
\* playwright.stop() (line 28), after which a pending exception reaches the
\* except clause and the terminal write runs without suspension. The
\* pipeline is suspended in between and other tasks may run. When the call
\* it is at raises, what the call was to release stays as it is (after a
\* raising browser.close(), playwright.stop() is not reached), the error
\* replaces the pending one, the except clause records it and the terminal
\* write runs; whatever lines 72-77 assigned before the session was left
\* stays in final_result.
AExit(t) ==
    /\ pc[t] = "aexit"
    /\ \E ok \in BOOLEAN :
         IF ~ok
         THEN /\ UNCHANGED session
              /\ Persist(t, Caught(loc[t], IF session[t] = "browser"
                                           THEN MSG_CLOSE_ERROR ELSE MSG_STOP_ERROR))
         ELSE IF session[t] = "browser"
              THEN /\ session' = [session EXCEPT ![t] = "driver"]
                   /\ UNCHANGED <<pc, loc, sem_value, sem_waiters, ready, wakeup_scheduled, log, records, writes>>
              ELSE /\ session' = [session EXCEPT ![t] = "none"]
                   /\ Persist(t, IF loc[t].exc # None THEN Caught(loc[t], loc[t].exc)
                                  ELSE loc[t])
    /\ UNCHANGED <<webhooks, delivery, field_value, harvested, env>>

\* How the post to the webhook URL may end: a 200 reply, another status, an
\* httpx.RequestError, or an exception that is no RequestError
\* (httpx.InvalidURL, raised for a URL httpx refuses).
WebhookReplies == {"200", "500", "RequestError", "InvalidURL"}

\* WebhookService.submit_result for the end of the one post it makes: the
\* level it logs the outcome at, and the text of the error it lets through
\* (the except clause of line 22 catches httpx.RequestError only). It
\* returns None when it raises nothing.
submit_result(reply) ==
    CASE reply = "200" -> [logged |-> "info", raised |-> None]
      [] reply \in {"500", "RequestError"} -> [logged |-> "error", raised |-> None]
      [] reply = "InvalidURL" -> [logged |-> "none", raised |-> MSG_INVALID_URL]

\* Line 103 up to the end of the try of WebhookService.submit_result: the
\* post returns or raises; a reply and an httpx.RequestError are logged, any
\* other error is on its way out with nothing logged. The pipeline is then
\* suspended in the close of the httpx client, still holding its slot, and
\* other tasks may run.
Webhook(t) ==
    /\ pc[t] = "webhook"
    /\ webhooks' = [webhooks EXCEPT ![t] = @ + 1]
    /\ \E reply \in WebhookReplies :
         /\ delivery' = [delivery EXCEPT ![t] = submit_result(reply).logged]
         /\ loc' = [loc EXCEPT ![t].exc = submit_result(reply).raised]
    /\ pc' = [pc EXCEPT ![t] = "complete"]
    /\ UNCHANGED <<sem_value, sem_waiters, ready, wakeup_scheduled, log, session, records, writes,
                   field_value, harvested, env>>

\* The httpx client is closed and the block of the gate is left: by return,
\* after submit_result returned None and line 105 logged the end of the
\* task, or by the error the post raised, which nothing in
\* process_scraping_task catches. Nothing the task held is left: its locals
\* are gone, and of the post's outcome only the log line written before.
Complete(t) ==
    /\ pc[t] = "complete"
    /\ ExitGate
    /\ pc' = [pc EXCEPT ![t] = IF loc[t].exc # None THEN "raised" ELSE "done"]
    /\ loc' = [loc EXCEPT ![t] = NoLocals]
    /\ log' = [log EXCEPT ![t] = <<>>]
    /\ delivery' = [delivery EXCEPT ![t] = "none"]
    /\ UNCHANGED <<session, records, writes, webhooks, field_value, harvested, env>>

Next ==
    \/ \E t \in Tasks : Submit(t)
    \/ \E t \in Tasks : Query(t)
    \/ \E t \in Tasks : Start(t)
    \/ \E t \in Tasks : Resume(t)
    \/ \E t \in Tasks : AEnter(t)
    \/ \E t \in Tasks : Search(t)
    \/ \E t \in Tasks : Verify(t)
    \/ \E t \in Tasks : Harvest(t)
    \/ \E t \in Tasks : Visit(t)
    \/ \E t \in Tasks : Extract(t)
    \/ \E t \in Tasks : FallbackSearch(t)
    \/ \E t \in Tasks : FallbackLLM(t)
    \/ \E t \in Tasks : AExit(t)
    \/ \E t \in Tasks : Webhook(t)
    \/ \E t \in Tasks : Complete(t)

Spec == Init /\ [][Next]_vars

\* The steps of the pipeline of task t.
Pipeline(t) ==
    \/ Start(t) \/ Resume(t) \/ AEnter(t) \/ Search(t) \/ Verify(t) \/ Harvest(t)
    \/ Visit(t) \/ Extract(t) \/ FallbackSearch(t) \/ FallbackLLM(t)
    \/ AExit(t) \/ Webhook(t) \/ Complete(t)

\* The event loop runs every coroutine that can run, and every collaborator
\* call returns or raises in finite time: no pipeline that can take a step
\* is left waiting forever.
LiveSpec == Init /\ [][Next]_vars /\ \A t \in Tasks : WF_vars(Pipeline(t))

\* ------------------------------------------------- field validation alone
\* A ContactInfo field is given a value and its validator runs, no pipeline
\* being involved: the values are drawn from a family of formatted strings.

\* A run of k digits.
DigitRun(k) == [i \in 1..k |-> IF i % 2 = 1 THEN "5" ELSE "0"]
\* Whitespace that may stand before and after a value.
PhoneLeads == {<<>>, <<" ">>, <<"\t">>, <<VT>>, <<NBSP>>, <<"\r", "\f", " ">>}
PhoneTrails ==
    {<<>>, <<" ">>, <<"\n">>, <<FS, GS>>, <<RS, US>>, <<" ", "\f">>,
     <<NEL, IDEOGRAPHIC_SPACE>>}

PhoneFormats == {"plain", "plus", "paren", "spaced"}

\* k digits written in format f.
Formatted(k, f) ==
    CASE f = "plain" -> DigitRun(k)
      [] f = "plus" -> <<"+">> \o DigitRun(k)
      [] f = "paren" -> <<"(">> \o DigitRun(k) \o <<")">>
      [] f = "spaced" -> DigitRun(k \div 2) \o <<" ">> \o DigitRun(k - (k \div 2))

\* The str values given to Phone or Fax: up to MaxDigitsIn digits in a
\* format, with or without leading and trailing whitespace.
PhoneInputs ==
    {l \o Formatted(k, f) \o r :
        l \in PhoneLeads, r \in PhoneTrails, k \in 0..MaxDigitsIn, f \in PhoneFormats}

\* Pieces of text an Email value is made of: addresses and near-addresses
\* (no "@", no dot after the domain, no local part, no domain label).
EmailPieces ==
    { [text |-> <<>>, addr |-> FALSE],
      [text |-> <<"a", "b", ".", "c", "o">>, addr |-> FALSE],
      [text |-> <<"a", "@", "b">>, addr |-> FALSE],
      [text |-> <<"@", "b", ".", "c", "o">>, addr |-> FALSE],
      [text |-> <<"a", "@", ".", "c", "o">>, addr |-> FALSE],
      [text |-> <<"a", "@", "b", ".", "c", "o">>, addr |-> TRUE],
      [text |-> <<"A", ".", "b", "+", "c", "@", "X", "-", "1", ".", "C", "o">>, addr |-> TRUE],
      [text |-> <<"x", "_", "0", "@", "c", ".", "o", "-", "x", ".", "b">>, addr |-> TRUE] }

\* What stands before the first piece and between the two pieces.
EmailLeads == {<<>>, <<" ">>, <<"\t">>, <<NBSP>>, <<"x", " ", "(">>}
EmailSeparators == {<<",", " ">>, <<" ">>, <<";">>}

\* An Email value: a lead, a piece, a separator, a piece, a trailing blank.
EmailCases ==
    [lead : EmailLeads, first : EmailPieces, sep : EmailSeparators, second : EmailPieces]

EmailText(c) == c.lead \o c.first.text \o c.sep \o c.second.text \o <<" ">>

\* The str values given to Email.
EmailInputs == {<<>>} \cup {EmailText(c) : c \in EmailCases}

FieldInit ==
    /\ Idle
    /\ field_value \in
          {[name |-> n, raw |-> v, validated |-> FALSE, stored |-> <<>>] :
              n \in {"Phone", "Fax"}, v \in PhoneInputs}
          \cup {[name |-> "Email", raw |-> v, validated |-> FALSE, stored |-> <<>>] :
                  v \in EmailInputs}
    /\ harvested = NoHarvest
    /\ env = NoClients

\* The validator of Phone and Fax runs on the value: what it returns is stored.
ValidatePhone ==
    /\ field_value.name \in {"Phone", "Fax"}
    /\ ~field_value.validated
    /\ field_value' = [field_value EXCEPT !.validated = TRUE,
                                          !.stored = validate_phone(field_value.raw)]
    /\ UNCHANGED <<sem_value, sem_waiters, ready, wakeup_scheduled, pc, loc, session, log, records,
                   writes, webhooks, delivery, harvested, env>>

\* The validator of Email runs on the value: what it returns is stored.
ValidateEmail ==
    /\ field_value.name = "Email"
    /\ ~field_value.validated
    /\ field_value' = [field_value EXCEPT !.validated = TRUE,
                                          !.stored = validate_email(field_value.raw)]
    /\ UNCHANGED <<sem_value, sem_waiters, ready, wakeup_scheduled, pc, loc, session, log, records,
                   writes, webhooks, delivery, harvested, env>>

FieldNext ==
    \/ ValidatePhone
    \/ ValidateEmail

FieldSpec == FieldInit /\ [][FieldNext]_vars


\* ---------------------------------------------------- link ranking alone
\* harvest_contact_links has collected a set of links on a homepage and
\* sorts it, no pipeline being involved.

RankInit ==
    /\ Idle
    /\ field_value = NoField
    /\ harvested \in UNION {{[homepage_url |-> h, links |-> l, sorted |-> FALSE,
                                sorted_links |-> <<>>] : l \in LinkLists(h)} :
                              h \in Homepages}
    /\ env = NoClients

\* Lines 249-260 of harvest_contact_links: the list is sorted and returned.
SortLinks ==
    /\ harvested.links # <<>>
    /\ ~harvested.sorted
    /\ harvested' = [harvested EXCEPT
                        !.sorted = TRUE,
                        !.sorted_links = sorted_links(harvested.links, harvested.homepage_url)]
    /\ UNCHANGED <<sem_value, sem_waiters, ready, wakeup_scheduled, pc, loc, session, log, records,
                   writes, webhooks, delivery, field_value, env>>

RankNext == SortLinks

RankSpec == RankInit /\ [][RankNext]_vars

\* ------------------------------------------------------------- properties

\* A pipeline is inside the gate from the acquisition of its slot to the end
\* of the "async with BROWSER_SEMAPHORE" block.
GatePcs == {"aenter", "search", "verify", "harvest", "visit", "extract",
            "fbsearch", "fbllm", "aexit", "webhook", "complete"}
Inside == {t \in Tasks : pc[t] \in GatePcs}
Submitted == {t \in Tasks : pc[t] # "idle"}

\* a queued before b, and both are still queued.
Before(a, b) ==
    \E i, j \in 1..Len(sem_waiters) :
        i < j /\ sem_waiters[i] = a /\ sem_waiters[j] = b

\* C1: at most MAX_CONCURRENT_BROWSERS pipelines are inside the gate in every
\* reachable state, however many tasks are submitted, and a pipeline that had
\* to queue leaves the queue only in a state where fewer than
\* MAX_CONCURRENT_BROWSERS pipelines are inside (a holder has released).
C1_GateBound ==
    /\ [](Cardinality(Inside) <= MAX_CONCURRENT_BROWSERS)
    /\ [][\A t \in Tasks :
            (pc[t] = "waiting" /\ pc'[t] # "waiting")
                => Cardinality(Inside) < MAX_CONCURRENT_BROWSERS]_vars

\* More tasks than slots are submitted, the gate is full, one pipeline has
\* finished and given its slot back, and a pipeline is still queued.
C1_Witness ==
    /\ Cardinality(Submitted) > MAX_CONCURRENT_BROWSERS
    /\ Cardinality(Inside) = MAX_CONCURRENT_BROWSERS
    /\ \E t \in Tasks : pc[t] = "done"
    /\ \E t \in Tasks : pc[t] = "waiting"

\* The slots a woken waiter holds before it runs again: on the "fifo"
\* semaphore release() takes the slot for the waiter it wakes; on the
\* "requeue" and the "scheduled" semaphore a woken waiter holds nothing
\* until it has run.
HandedOver == IF env.semaphore = "fifo" THEN Len(ready) ELSE 0

\* C2: no slot is leaked. The slots taken from the semaphore are exactly
\* those of the pipelines inside the gate (plus, where release() hands the
\* slot over, those of the woken waiters that have not run yet); so a
\* pipeline that has left, by return, by the error of its terminal write or
\* by the error of its webhook post, holds no slot, and once every pipeline
\* has left all MAX_CONCURRENT_BROWSERS slots are free again.
C2_NoSlotLeak ==
    /\ sem_value >= 0
    /\ MAX_CONCURRENT_BROWSERS - sem_value = Cardinality(Inside) + HandedOver
    /\ (Inside = {} /\ sem_waiters = <<>> /\ ready = <<>>)
           => sem_value = MAX_CONCURRENT_BROWSERS

\* One pipeline left the gate by the error of its terminal write, another by
\* the error its webhook post raised after the write, a third by normal
\* return after a stage error was caught, and every slot is free.
C2_Witness ==
    /\ \E t \in Tasks : pc[t] = "raised" /\ writes[t] = 0 /\ webhooks[t] = 0
    /\ \E t \in Tasks : pc[t] = "raised" /\ writes[t] = 1 /\ webhooks[t] = 1
    /\ \E t \in Tasks : pc[t] = "done" /\ records[t].status = "FAILURE"
    /\ Inside = {}
    /\ sem_waiters = <<>>
    /\ ready = <<>>
    /\ sem_value = MAX_CONCURRENT_BROWSERS

\* C3 as stated: slots are granted in arrival order. While a is queued ahead
\* of b, b neither enters the gate nor is handed a slot before a; and a
\* pipeline that arrives while another one waits for a slot does not enter
\* ahead of it.
C3_Fifo ==
    /\ [][\A a, b \in Tasks :
            Before(a, b) =>
                /\ pc'[b] = "waiting"
                /\ (b \in Range(ready') => (a \in Range(ready') \/ pc'[a] \in GatePcs))]_vars
    /\ [][\A a, c \in Tasks :
            (pc[a] = "waiting" /\ pc[c] = "scheduled") => pc'[c] \notin GatePcs]_vars

\* The task that the next submission creates, while the clients have
\* submissions left to make.
NextToSubmit(t) ==
    /\ pc[t] = "idle"
    /\ \A u \in Tasks : u < t => pc[u] # "idle"
    /\ t <= env.clients

\* C4: submission never waits. Whatever the state of the gate and of the
\* pipelines, create_search_task can run for the next task; and the record
\* of a task exists from its submission on, so before its pipeline starts
\* and before its search stage runs.
C4_SubmitNeverBlocks ==
    /\ \A t \in Tasks : NextToSubmit(t) => ENABLED Submit(t)
    /\ \A t \in Tasks : pc[t] # "idle" => records[t] # NoRecord

\* A task is submitted and its record exists while the gate is full and
\* another pipeline is queued.
C4_Witness ==
    /\ \E t \in Tasks : pc[t] = "scheduled" /\ records[t] # NoRecord
    /\ Cardinality(Inside) = MAX_CONCURRENT_BROWSERS
    /\ sem_waiters # <<>>

\* The pipeline of t has not started running.
NotStarted(t) == pc[t] \in {"scheduled", "waiting"}

\* C5 as stated: from submission until the pipeline starts running, a status
\* query for the task reads PENDING.
C5_ReadsPending ==
    \A t \in Tasks :
        (records[t] # NoRecord /\ NotStarted(t)) => get_task_status(t).status = "PENDING"

StatusRank(st) ==
    CASE st = "absent" -> 0
      [] st = "PENDING" -> 1
      [] st = "IN_PROGRESS" -> 2
      [] st \in {"SUCCESS", "FAILURE"} -> 3

\* C6: the persisted status of a task never moves backwards along
\* PENDING, IN_PROGRESS, {SUCCESS, FAILURE}, and never changes once it is
\* SUCCESS or FAILURE.
C6_StatusMonotonic ==
    [][\A t \in Tasks :
         /\ StatusRank(records'[t].status) >= StatusRank(records[t].status)
         /\ records[t].status \in {"SUCCESS", "FAILURE"}
                => records'[t].status = records[t].status]_vars

\* One task has ended SUCCESS and another FAILURE.
C6_Witness ==
    /\ \E t \in Tasks : records[t].status = "SUCCESS"
    /\ \E t \in Tasks : records[t].status = "FAILURE"

\* C7 as stated: after its creation the record of a task is written exactly
\* once, by that task's own pipeline at its terminal write: never twice,
\* and once for every pipeline that has ended, however it ended; the record
\* changes in no other step, so no pipeline writes the record of another
\* task and a status query writes nothing.
C7_SingleWriter ==
    /\ [](\A t \in Tasks :
            /\ writes[t] <= 1
            /\ pc[t] \in {"done", "raised"} => writes[t] = 1)
    /\ [][\A t \in Tasks :
            (records'[t] # records[t] \/ writes'[t] # writes[t]) =>
                \/ (records[t] = NoRecord /\ pc[t] = "idle" /\ writes'[t] = 0)
                \/ /\ pc[t] \in {"aenter", "aexit"}
                   /\ pc'[t] = "webhook"
                   /\ writes'[t] = writes[t] + 1]_vars

\* C8 as stated: the terminal write stores the outcome message, so the record
\* of a task that ended FAILURE carries the failure message the status query
\* would show.
C8_MessageStored ==
    \A t \in Tasks :
        (pc[t] = "webhook" /\ records[t].status = "FAILURE")
            => records[t].message = loc[t].message

\* What the terminal state of a pipeline looks like: its outcome is fixed,
\* its record written, its payload on the way.
Ended(t) == pc[t] \in {"webhook", "complete"}

\* C9 as stated: when the search stage returned no URL, the task ends FAILURE with the
\* message "No search results found", the sentinel as official site and no
\* contact info, in the payload and in the record, and search is the only
\* stage the pipeline ever invoked.
C9_NoSearchResults ==
    \A t \in Tasks :
        loc[t].search_results = "empty" =>
            /\ log[t] = <<"search">>
            /\ pc[t] \in {"aexit", "webhook", "complete"}
            /\ Ended(t) =>
                /\ loc[t].status = "FAILURE"
                /\ loc[t].message = MSG_NO_RESULTS
                /\ loc[t].official_site = NOT_AVAILABLE
                /\ loc[t].poe_info = NoneObj
                /\ records[t].status = "FAILURE"
                /\ records[t].result_data =
                       [official_site |-> NOT_AVAILABLE, poe_info |-> NoneObj]

\* C10 as stated: when search succeeded and site verification returned "" (empty reply
\* or NOT_FOUND), the task ends FAILURE with "Official site not found by
\* LLM"; when contact extraction returned None, it ends FAILURE with "Failed
\* to extract contact info via LLM"; either way no contact info is attached,
\* in the payload and in the record.
C10_DataAbsence ==
    \A t \in Tasks :
        Ended(t) =>
            /\ (loc[t].search_results = "urls" /\ loc[t].verified = "") =>
                   /\ loc[t].status = "FAILURE"
                   /\ loc[t].message = MSG_NO_SITE
                   /\ loc[t].poe_info = NoneObj
                   /\ records[t].status = "FAILURE"
                   /\ records[t].result_data.poe_info = NoneObj
            /\ loc[t].contact_info = NoneObj =>
                   /\ loc[t].status = "FAILURE"
                   /\ loc[t].message = MSG_NO_CONTACT
                   /\ loc[t].poe_info = NoneObj
                   /\ loc[t].official_site = SITE_URL
                   /\ records[t].status = "FAILURE"
                   /\ records[t].result_data.poe_info = NoneObj

\* Python truth of the local contact_info: a ContactInfo object.
IsContactInfo(c) == c # NoneObj /\ c # Unset

\* C11: the fallback email search is issued exactly when contact extraction
\* returned a ContactInfo object whose normalized Email is empty. The stage
\* that issues it is entered only on such a return of extraction; and a
\* pipeline that ended without issuing it either never got a return from
\* extraction (an earlier stage or extraction itself raised), or got None,
\* or got an object with a non-empty Email.
C11_FallbackIff ==
    /\ [][\A t \in Tasks :
            (pc[t] = "extract" /\ pc'[t] # "extract") =>
                (pc'[t] = "fbsearch" <=>
                    (IsContactInfo(loc'[t].contact_info)
                        /\ loc'[t].contact_info.Email = <<>>))]_vars
    /\ [][\A t \in Tasks :
            ("fbsearch" \in Range(log'[t]) /\ "fbsearch" \notin Range(log[t])) =>
                /\ pc[t] = "fbsearch"
                /\ log[t][Len(log[t])] = "extract"
                /\ IsContactInfo(loc[t].contact_info)
                /\ loc[t].contact_info.Email = <<>>]_vars
    /\ [](\A t \in Tasks :
            /\ pc[t] = "fbsearch" => ENABLED FallbackSearch(t)
            /\ (Ended(t) /\ "fbsearch" \notin Range(log[t])) =>
                   \/ ~IsContactInfo(loc[t].contact_info)
                   \/ loc[t].contact_info.Email # <<>>)

\* A pipeline has issued the fallback search and ended, after another one
\* ended SUCCESS.
C11_Witness ==
    \E t, u \in Tasks :
        /\ Ended(t) /\ "fbsearch" \in Range(log[t])
        /\ pc[u] = "done" /\ records[u].status = "SUCCESS"

\* The payload of lines 98-102, built from the locals at the terminal write.
WebhookPayload(l) == [status |-> l.status, message |-> l.message, result |-> ResultData(l)]

\* C12 as stated: when extraction returned an object with an empty Email and the
\* fallback LLM names an address, the task ends SUCCESS; the final Email is
\* the normalized reply (first address of the reply, lowercased), and Phone,
\* Fax, Address, City, State, ZipCode and DeptContacts are those of the
\* primary extraction, in the outcome, in the payload and in the record.
C12_FallbackEmail ==
    /\ [][\A t \in Tasks :
            (pc[t] = "fbllm" /\ pc'[t] = "aexit" /\ loc'[t].exc = None
                /\ loc'[t].contact_info.Email # <<>>) =>
                /\ loc[t].contact_info.Email = <<>>
                /\ \E r \in FallbackReplies :
                      /\ r.kind = "json"
                      /\ loc'[t].contact_info.Email = validate_email(r.Email)
                /\ loc'[t].contact_info.Email = <<"c", "@", "b", ".", "c", "o">>
                /\ loc'[t].contact_info =
                       [loc[t].contact_info EXCEPT !.Email = loc'[t].contact_info.Email]
                /\ loc'[t].status = "SUCCESS"
                /\ loc'[t].poe_info = loc'[t].contact_info]_vars
    /\ [](\A t \in Tasks :
            (Ended(t) /\ "fbllm" \in Range(log[t])
                /\ loc[t].contact_info.Email # <<>>) =>
                /\ WebhookPayload(loc[t]).status = "SUCCESS"
                /\ WebhookPayload(loc[t]).result.poe_info = loc[t].contact_info
                /\ records[t].status = "SUCCESS"
                /\ records[t].result_data.poe_info = loc[t].contact_info
                /\ loc[t].contact_info.Phone = PHONE_OK
                /\ loc[t].contact_info.DeptContacts = DEPT_CONTACTS)

\* C13 as stated: once contact extraction has returned a ContactInfo object
\* and the fallback stage has been entered, no outcome of the fallback stage
\* makes the task fail: the task ends SUCCESS and carries the contact info,
\* whether the snippet search returned nothing, the LLM named no address,
\* its reply was malformed, or its call failed with a transient error on
\* every allowed attempt. (A session that closes with an error is left
\* aside here: it is no outcome of the fallback stage.)
C13_FallbackNeverFails ==
    \A t \in Tasks :
        (/\ Ended(t)
         /\ IsContactInfo(loc[t].contact_info)
         /\ "fbsearch" \in Range(log[t])
         /\ loc[t].message \notin {MSG_CLOSE_ERROR, MSG_STOP_ERROR}) =>
            /\ loc[t].status = "SUCCESS"
            /\ loc[t].poe_info = loc[t].contact_info
            /\ records[t].status = "SUCCESS"

\* The links that are the homepage but for the case of their letters.
SameButCase(homepage_url) ==
    CASE homepage_url = HOME_URL -> {HOME_URL, HOME_UPPER}
      [] homepage_url = HOME_ACCENT -> {HOME_ACCENT, URL_ACCENT_UPPER}
      [] homepage_url = HOME_DOTTED -> {HOME_DOTTED, URL_DOTTED_UPPER}

\* The tier of each link found on a homepage, letter case left aside.
TierOf(url, homepage_url) ==
    CASE url \in {URL_CONTACT, URL_ABOUT_CONTACT} -> 1
      [] url = URL_ABOUT -> 2
      [] url \in {URL_TEAM, URL_STAFF} -> 3
      [] url \in {URL_LOCATIONS, URL_OFFICE} -> 4
      [] url \in SameButCase(homepage_url) -> 5
      [] OTHER -> 6

\* The first k entries of a list (all of it when it is shorter).
FirstOf(list, k) == SubSeq(list, 1, IF Len(list) < k THEN Len(list) ELSE k)

\* C14: however many links harvesting returned and however long the pages
\* are, the pages visited are the first MaxPagesVisited links of the ranked
\* list (all of them when there are fewer), in that order and one per
\* visit: the list the loop reads is ranked, what has been visited is
\* always an initial part of it, no link the loop leaves out has a lower
\* tier than one it visits, and the loop ends having visited exactly those
\* first links; and the buffer handed to contact extraction is at most
\* MaxBufferChars characters long.
C14_VisitAndBufferBounds ==
    /\ [](\A t \in Tasks :
            /\ Len(loc[t].visited) <= MaxPagesVisited
            /\ pc[t] = "visit" =>
                   LET links == loc[t].links
                       visited == loc[t].visited
                   IN  /\ Len(visited) < MaxPagesVisited
                       /\ Len(visited) < Len(links)
                       /\ visited = FirstOf(links, Len(visited))
                       /\ \A i, j \in 1..Len(links) :
                              i < j => TierOf(links[i], HOME_URL) <= TierOf(links[j], HOME_URL)
            /\ pc[t] = "extract" =>
                   /\ Len(loc[t].visited) \in 1..MaxPagesVisited
                   /\ loc[t].combined_len \in 1..MaxBufferChars)
    /\ [][\A t \in Tasks :
            /\ (pc[t] = "visit" /\ loc'[t].visited # loc[t].visited) =>
                   \/ loc'[t].visited = <<>>
                   \/ loc'[t].visited =
                          Append(loc[t].visited, loc[t].links[Len(loc[t].visited) + 1])
            /\ (pc[t] = "visit" /\ pc'[t] = "visit") => loc'[t].links = loc[t].links
            /\ (pc[t] = "visit" /\ pc'[t] = "extract") =>
                   /\ loc'[t].visited = FirstOf(loc[t].links, MaxPagesVisited)
                   /\ \A i \in 1..Len(loc[t].links) :
                          i > Len(loc'[t].visited) =>
                              \A j \in 1..Len(loc'[t].visited) :
                                  TierOf(loc'[t].visited[j], HOME_URL)
                                      <= TierOf(loc[t].links[i], HOME_URL)
            /\ (pc[t] = "extract" /\ pc'[t] = "extract") =>
                   /\ loc'[t].visited = loc[t].visited
                   /\ loc'[t].combined_len = loc[t].combined_len]_vars

\* Harvesting returned four links; the first three of the ranked list have
\* been visited, in ranked order, the fourth has not, their texts together
\* exceeded the limit, and extraction is handed a buffer of exactly
\* MaxBufferChars characters.
C14_Witness ==
    \E t \in Tasks :
        /\ pc[t] = "extract"
        /\ loc[t].visited = <<URL_ABOUT_CONTACT, URL_STAFF, HOME_URL>>
        /\ loc[t].combined_len = MaxBufferChars

\* The stages of lines 35-70, in the order of the code.
StageOrder == <<"search", "verify", "harvest", "visit", "extract", "fbsearch", "fbllm">>

\* C15: within a task the stages are invoked in the order search, site
\* verification, link harvesting, page visits, contact extraction, fallback
\* snippet search, fallback LLM call: the stages a pipeline has invoked so
\* far are always an initial part of that order (none skipped, none twice,
\* retry attempts and the per-link visits apart), and a stage is invoked
\* only by the pipeline standing at it, after the one before it returned.
\* (Across tasks nothing is imposed: a later task may end first.)
C15_StageOrder ==
    /\ [](\A t \in Tasks :
            /\ Len(log[t]) <= Len(StageOrder)
            /\ log[t] = SubSeq(StageOrder, 1, Len(log[t])))
    /\ [][\A t \in Tasks :
            /\ log'[t] \in {log[t], <<>>}
                   \/ /\ Len(log[t]) < Len(StageOrder)
                      /\ log'[t] = Append(log[t], StageOrder[Len(log[t]) + 1])
                      /\ pc[t] = StageOrder[Len(log[t]) + 1]
            /\ (pc'[t] \in Range(StageOrder) /\ pc'[t] # pc[t]) =>
                   /\ pc[t] \in {"aenter"} \cup Range(StageOrder)
                   /\ pc[t] = "aenter" => (pc'[t] = "search" /\ log[t] = <<>>)
                   /\ pc[t] # "aenter" =>
                          /\ log'[t][Len(log'[t])] = pc[t]
                          /\ pc'[t] = StageOrder[Len(log'[t]) + 1]]_vars

\* A task has run all seven stages and ended while a task submitted before
\* it has not reached its terminal state.
C15_Witness ==
    \E t, u \in Tasks :
        /\ t < u
        /\ Ended(u) /\ log[u] = StageOrder
        /\ records[u].status \in {"SUCCESS", "FAILURE"}
        /\ records[t].status = "IN_PROGRESS" /\ pc[t] = "waiting"

\* C16: a task that ends FAILURE after site verification returned a URL
\* (harvesting, a page visit, extraction or the fallback failed) carries
\* that URL as official site, in the persisted result and in the payload,
\* not the "Information not available" sentinel.
C16_PartialResultKept ==
    \A t \in Tasks :
        (Ended(t) /\ loc[t].status = "FAILURE" /\ loc[t].verified \notin {"unset", ""}) =>
            /\ loc[t].verified = SITE_URL
            /\ WebhookPayload(loc[t]).status = "FAILURE"
            /\ WebhookPayload(loc[t]).result.official_site = loc[t].verified
            /\ records[t].status = "FAILURE"
            /\ records[t].result_data.official_site = loc[t].verified
            /\ records[t].result_data.official_site # NOT_AVAILABLE

\* A pipeline whose stage raised after site verification has ended FAILURE
\* with the retry error as its message.
C16_Witness ==
    \E t \in Tasks :
        /\ Ended(t) /\ loc[t].status = "FAILURE"
        /\ loc[t].verified = SITE_URL
        /\ loc[t].message = MSG_RETRY_ERROR
        /\ records[t].result_data.official_site = SITE_URL

\* C17 as stated: an error raised by a stage, or by opening the browser session, is
\* caught inside the pipeline. A pipeline standing at a stage never leaves
\* process_scraping_task by an exception; the error is taken to the except
\* clause, which makes the outcome FAILURE with the text of that error as
\* message; the terminal write follows and records FAILURE, and after it the
\* delivery is attempted.
C17_ErrorsCaught ==
    /\ [][\A t \in Tasks :
            /\ pc[t] \in Range(StageOrder) => pc'[t] # "raised"
            /\ (pc[t] = "aexit" /\ loc[t].exc # None /\ pc'[t] = "webhook") =>
                   /\ loc'[t].status = "FAILURE"
                   /\ loc'[t].message = loc[t].exc
                   /\ writes'[t] = writes[t] + 1
                   /\ records'[t].status = "FAILURE"
            /\ (pc[t] = "aenter" /\ pc'[t] = "webhook") =>
                   /\ loc'[t].status = "FAILURE"
                   /\ loc'[t].message = MSG_SESSION_ERROR
                   /\ writes'[t] = writes[t] + 1
                   /\ records'[t].status = "FAILURE"
            /\ (pc[t] = "webhook" /\ pc'[t] # "webhook") =>
                   (pc'[t] = "complete" /\ webhooks'[t] = webhooks[t] + 1)]_vars
    /\ [](\A t \in Tasks :
            /\ (pc[t] = "aexit" /\ loc[t].exc # None) => ENABLED AExit(t)
            /\ pc[t] = "webhook" => ENABLED Webhook(t)
            /\ pc[t] = "done" => (writes[t] = 1 /\ webhooks[t] = 1))

\* C18 as stated: the webhook post of a task is made at most once and only
\* after the task's terminal write; the payload in flight has the status,
\* the message and the result of the persisted record; and the post,
\* however it ends (200, another status, a request error, any other
\* error), leaves every record as it is and is not made again: after it
\* the task only leaves the gate.
C18_DeliveryOnce ==
    /\ [](\A t \in Tasks :
            /\ webhooks[t] <= 1
            /\ webhooks[t] = 1 =>
                   (writes[t] = 1 /\ pc[t] \in {"complete", "done", "raised"})
            /\ pc[t] = "webhook" =>
                   /\ writes[t] = 1
                   /\ records[t].status = WebhookPayload(loc[t]).status
                   /\ records[t].message = WebhookPayload(loc[t]).message
                   /\ records[t].result_data = WebhookPayload(loc[t]).result)
    /\ [][\A t \in Tasks :
            /\ webhooks'[t] # webhooks[t] =>
                   /\ pc[t] = "webhook" /\ pc'[t] = "complete"
                   /\ webhooks[t] = 0 /\ writes[t] = 1
                   /\ records' = records /\ writes' = writes
            /\ pc[t] = "complete" =>
                   /\ pc'[t] \in {"complete", "done", "raised"}
                   /\ webhooks'[t] = webhooks[t]
                   /\ records'[t] = records[t]
            /\ (pc[t] \in {"done", "raised"} /\ webhooks[t] = 1) =>
                   /\ pc'[t] = pc[t]
                   /\ webhooks'[t] = webhooks[t]
                   /\ records'[t] = records[t]]_vars

\* C19 as stated: a failure of the terminal write is swallowed. No exception
\* leaves the pipeline, and every pipeline that has left the gate has made
\* its webhook post.
C19_PersistFailureSwallowed ==
    \A t \in Tasks :
        /\ pc[t] # "raised"
        /\ pc[t] \notin GatePcs \cup {"idle", "scheduled", "waiting"} => webhooks[t] = 1

\* Number of digit characters of a string.
DigitCount(v) == Cardinality({i \in 1..Len(v) : v[i] \in Digits})

\* A phone or fax value has been validated.
PhoneStored == field_value.validated /\ field_value.name \in {"Phone", "Fax"}

\* C20 as stated: for every phone or fax input, the stored value is "" when
\* the input is empty or its digit count is outside [6, 18], and otherwise
\* the input itself, character for character, leading and trailing
\* whitespace included.
C20_PhoneVerbatim ==
    PhoneStored =>
        field_value.stored =
            IF field_value.raw = <<>>
                  \/ DigitCount(field_value.raw) < MinPhoneDigits
                  \/ DigitCount(field_value.raw) > MaxPhoneDigits
            THEN <<>>
            ELSE field_value.raw

\* An Email value has been validated.
EmailStored == field_value.validated /\ field_value.name = "Email"

\* The address the validator is to keep of a value made of two pieces.
FirstAddress(c) ==
    IF c.first.addr THEN Lower(c.first.text)
    ELSE IF c.second.addr THEN Lower(c.second.text)
    ELSE <<>>

\* C21: for every Email input the stored value is the leftmost substring of
\* the shape local-part@domain.tld, lowercased, and "" when the input holds
\* none; a second address of the input never shows in the stored value, which
\* holds one "@" at most, no upper-case letter and no whitespace.
C21_FirstEmailLowercased ==
    EmailStored =>
        /\ \A c \in EmailCases :
               EmailText(c) = field_value.raw => field_value.stored = FirstAddress(c)
        /\ field_value.raw = <<>> => field_value.stored = <<>>
        /\ Cardinality({i \in 1..Len(field_value.stored) : field_value.stored[i] = "@"}) <= 1
        /\ \A i \in 1..Len(field_value.stored) :
               field_value.stored[i] \notin UpperLetters \cup Whitespace

\* A value with two addresses, the first with upper-case letters, has been
\* validated: the first is stored in lower case, the second is gone.
C21_Witness ==
    /\ EmailStored
    /\ field_value.stored = <<"a", ".", "b", "+", "c", "@", "x", "-", "1", ".", "c", "o">>
    /\ \E c \in EmailCases :
          /\ EmailText(c) = field_value.raw
          /\ c.first.addr /\ c.second.addr /\ c.second.text # c.first.text

\* The tier of a link when the words are looked for in the URL as it is
\* written and the homepage is the very same string.
TierAsWritten(url, homepage_url) ==
    IF Contains(url, <<"c", "o", "n", "t", "a", "c", "t">>) THEN 1
    ELSE IF Contains(url, <<"a", "b", "o", "u", "t">>) THEN 2
    ELSE IF Contains(url, <<"t", "e", "a", "m">>)
            \/ Contains(url, <<"s", "t", "a", "f", "f">>) THEN 3
    ELSE IF Contains(url, <<"l", "o", "c", "a", "t", "i", "o", "n">>)
            \/ Contains(url, <<"o", "f", "f", "i", "c", "e">>) THEN 4
    ELSE IF url = homepage_url THEN 5
    ELSE 6

\* C22 as stated: harvest_contact_links returns its candidates sorted
\* ascending by tier, the tier of a URL being the first that applies of:
\* contains "contact" (1), "about" (2), "team" or "staff" (3), "location" or
\* "office" (4), equals the homepage URL (5), anything else (6); no link of
\* a higher tier stands before one of a lower tier.
C22_RankedAsWritten ==
    harvested.sorted =>
        LET out == harvested.sorted_links
        IN  \A i, j \in 1..Len(out) :
                i < j => TierAsWritten(out[i], harvested.homepage_url)
                             <= TierAsWritten(out[j], harvested.homepage_url)

\* C22 as amended: harvest_contact_links returns its candidates sorted
\* ascending by tier, the tier of a URL being the first that applies of:
\* its lower-case form contains "contact" (1), "about" (2), "team" or
\* "staff" (3), "location" or "office" (4), its lower-case form is that of
\* the homepage URL (5), anything else (6). The returned list holds the same
\* links, no link of a higher tier stands before one of a lower tier, links
\* of one tier keep their order, and the candidates team, contact, homepage
\* come back as contact, team, homepage.
C22_RankedByTier ==
    harvested.sorted =>
        LET in == harvested.links
            out == harvested.sorted_links
            h == harvested.homepage_url
        IN  /\ Len(out) = Len(in)
            /\ Range(out) = Range(in)
            /\ \A i, j \in 1..Len(out) : i < j => TierOf(out[i], h) <= TierOf(out[j], h)
            /\ \A i, j \in 1..Len(in) :
                   (i < j /\ TierOf(in[i], h) = TierOf(in[j], h)) =>
                       \E a, b \in 1..Len(out) : a < b /\ out[a] = in[i] /\ out[b] = in[j]
            /\ (in = <<URL_TEAM, URL_CONTACT, HOME_URL>> /\ h = HOME_URL)
                   => out = <<URL_CONTACT, URL_TEAM, HOME_URL>>

\* The candidates team, contact, homepage of the homepage https://x.com/
\* have been sorted and come back as contact, team, homepage.
C22_Witness ==
    /\ harvested.sorted
    /\ harvested.homepage_url = HOME_URL
    /\ harvested.links = <<URL_TEAM, URL_CONTACT, HOME_URL>>
    /\ harvested.sorted_links = <<URL_CONTACT, URL_TEAM, HOME_URL>>

\* A phone or fax value is empty or has between 6 and 18 digits.
PhoneOk(p) == p = <<>> \/ DigitCount(p) \in MinPhoneDigits..MaxPhoneDigits

\* An email value is empty or one lower-case address and nothing else.
EmailOk(e) ==
    \/ e = <<>>
    \/ /\ \A i \in 1..Len(e) : e[i] \notin UpperLetters \cup Whitespace
       /\ Cardinality({i \in 1..Len(e) : e[i] = "@"}) = 1
       /\ MatchesAt(e, 1)
       /\ MatchEnd(e, 1) = Len(e)

FieldsOk(c) == IsContactInfo(c) => (PhoneOk(c.Phone) /\ PhoneOk(c.Fax) /\ EmailOk(c.Email))

\* C23: every contact info of a pipeline (as returned by extraction, as
\* returned by the fallback stage, as attached to the result), of a payload
\* and of a persisted result has a Phone and a Fax that are empty or hold 6
\* to 18 digits and an Email that is empty or a single lower-case address.
C23_FieldInvariants ==
    \A t \in Tasks :
        /\ FieldsOk(loc[t].contact_info)
        /\ FieldsOk(loc[t].poe_info)
        /\ pc[t] = "webhook" => FieldsOk(WebhookPayload(loc[t]).result.poe_info)
        /\ records[t] # NoRecord /\ records[t].result_data # NoneObj
               => FieldsOk(records[t].result_data.poe_info)

\* A record holds a contact info whose short phone was emptied at
\* construction, and a pipeline whose fallback assigned the Email has its
\* payload in flight.
C23_Witness ==
    \E t, u \in Tasks :
        /\ pc[u] = "done"
        /\ IsContactInfo(records[u].result_data.poe_info)
        /\ records[u].result_data.poe_info.Phone = <<>>
        /\ records[u].result_data.poe_info.Email # <<>>
        /\ pc[t] = "webhook" /\ "fbllm" \in Range(log[t])
        /\ IsContactInfo(loc[t].poe_info)
        /\ loc[t].poe_info.Email # <<>>

\* The operations under a retry policy, by the stage that calls them.
RetriedStages == {"verify", "harvest", "visit", "extract", "fbllm"}

\* stop_after_attempt of the operation a stage calls.
AttemptLimit(stage) == IF stage = "fbllm" THEN MaxFallbackAttempts ELSE MaxAttempts

\* C24: a retried operation makes at most MaxAttempts attempts (site
\* verification, link harvesting, a page visit, contact extraction) or
\* MaxFallbackAttempts (fallback email extraction). A further attempt is
\* made only below that limit and only after an attempt that returned
\* nothing (it raised the transient error); the retry error is raised only
\* by the last allowed attempt; and an attempt that ends in a non-transient
\* failure (an unusable reply) ends the operation at once.
C24_BoundedRetries ==
    /\ [](\A t \in Tasks :
            pc[t] \in RetriedStages => loc[t].attempt \in 1..AttemptLimit(pc[t]))
    /\ [][\A t \in Tasks :
            /\ (pc[t] \in RetriedStages /\ pc'[t] = pc[t]
                    /\ loc'[t].attempt = loc[t].attempt + 1) =>
                   /\ loc[t].attempt < AttemptLimit(pc[t])
                   /\ loc'[t] = [loc[t] EXCEPT !.attempt = @ + 1]
            /\ (pc[t] \in RetriedStages /\ loc[t].exc = None
                    /\ loc'[t].exc = MSG_RETRY_ERROR) =>
                   loc[t].attempt = AttemptLimit(pc[t])
            /\ (pc[t] = "verify" /\ loc'[t].verified = "") => pc'[t] = "aexit"
            /\ (pc[t] = "extract" /\ loc'[t].contact_info = NoneObj) =>
                   (pc'[t] = "aexit" /\ loc'[t].exc = None)]_vars

\* A pipeline is at the last allowed attempt of its fallback extraction,
\* after another one ended on the retry error of an operation.
C24_Witness ==
    \E t, u \in Tasks :
        /\ pc[t] = "fbllm" /\ loc[t].attempt = MaxFallbackAttempts
        /\ pc[u] = "done" /\ records[u].status = "FAILURE"
        /\ records[u].result_data.official_site = SITE_URL

\* C25 as stated: when a retried operation failed with the transient error
\* on every allowed attempt, the error its caller gets, and so the message
\* of the task, is the error of the last attempt.
C25_LastErrorSurfaced ==
    \A t \in Tasks :
        /\ (pc[t] = "aexit" /\ loc[t].exc \notin {None, MSG_NO_RESULTS, MSG_NO_SITE}) =>
               loc[t].exc = MSG_TRANSIENT_ERROR
        /\ (Ended(t) /\ loc[t].status = "FAILURE" /\ loc[t].verified = SITE_URL
                /\ loc[t].contact_info # NoneObj) =>
               loc[t].message = MSG_TRANSIENT_ERROR

\* The persisted status of t is terminal.
Terminal(t) == records[t].status \in {"SUCCESS", "FAILURE"}

\* A task leaves the queue of the gate only by being admitted.
AdmittedFromQueue ==
    \A t \in Tasks :
        pc[t] \in {"scheduled", "waiting"}
            => pc'[t] \in {"scheduled", "waiting", "aenter"}

\* C26 as stated: under fair scheduling every submitted task is eventually
\* admitted by the gate (it leaves the queue, and only by admission) and its
\* persisted status eventually becomes SUCCESS or FAILURE, whatever the
\* outcomes of the stages, the retries, the persistence write and the
\* delivery.
C26_AlwaysTerminal ==
    /\ [][AdmittedFromQueue]_vars
    /\ \A t \in Tasks : (pc[t] = "scheduled") ~> Terminal(t)

\* C27: whatever __aenter__ started (the automation driver, the browser) has
\* been stopped by the time the pipeline has performed its terminal write,
\* on every exit path, including when opening the session fails part-way.
C27_SessionReleased ==
    \A t \in Tasks :
        pc[t] \in {"webhook", "done", "raised"} => session[t] = "none"

\* C28: in every persisted result and every delivered payload, status is
\* SUCCESS exactly when contact info is attached; SUCCESS implies that the
\* official site is the verified URL and, in the payload, that the message
\* is "Successfully extracted contact info"; FAILURE implies that no contact
\* info is attached.
C28_SuccessIffContactInfo ==
    \A t \in Tasks :
        /\ Ended(t) =>
              /\ WebhookPayload(loc[t]).status = "SUCCESS"
                     <=> WebhookPayload(loc[t]).result.poe_info # NoneObj
              /\ WebhookPayload(loc[t]).status = "SUCCESS" =>
                     /\ WebhookPayload(loc[t]).result.official_site = SITE_URL
                     /\ WebhookPayload(loc[t]).message = MSG_SUCCESS
        /\ Terminal(t) =>
              /\ records[t].status = "SUCCESS"
                     <=> records[t].result_data.poe_info # NoneObj
              /\ records[t].status = "SUCCESS" =>
                     records[t].result_data.official_site = SITE_URL

====
